---- MODULE Spec2Model ----
(***************************************************************************)
(* Conway's Game of Life as implemented by Life.Model (src/src/index.ts)   *)
(* and by the page script src/life.js.                                     *)
(*                                                                         *)
(* Arrays are functions on 0..n-1, as in the source; an array created by   *)
(* `new Array(n)` has no elements yet and is the function with the empty   *)
(* domain.  A number in [0,1] (a fluctuation, a Math.random() draw) is     *)
(* represented in halves: the fluctuations are 0, 1/2 and 1 (written 0, 1, *)
(* 2) and the draws, which lie in [0,1), are 0 and 1/2 (written 0, 1).     *)
(***************************************************************************)
EXTENDS Integers, FiniteSets, Sequences, TLC

VARIABLES
  input,        \* tick call: the array passed to tick, as it is now;
                \* constructor call: options.initial
  snapshot,     \* tick call: the contents of that array when tick was called
  fluctuation,  \* tick call: the fluctuation argument of the call
  random,       \* tick call: the Math.random() results the call consumed
  output,       \* tick call: the array tick returned
  pc,           \* the call in progress: "ready" / "returned" for tick,
                \* "random" / "generated" for Life.Model.random, "new" for the
                \* constructor ("TypeError" once it has thrown), else "none"
  shape,        \* random call: the arguments <<rows, columns>>
  likelihood,   \* random call: the argument likelihood
  data,         \* random call: the array random returned
  page,         \* life.js: the load listener's variables, the two buffers they
                \* refer to and the class names of the DOM cells
  state,        \* Life.Model._state
  rowCount,     \* Life.Model._rowCount
  columnCount,  \* Life.Model._columnCount
  ticker,       \* phase of Life.Model._ticker (the Poll)
  twin,         \* _state of a second Life.Model given the same grids, ticked as often
  origin,       \* the grid last stored by the constructor or by an assignment
  before,       \* <<_rowCount, _columnCount>> just before the last assignment by
                \* a caller, <<0, 0>> while there has been none
  generation,   \* poll ticks applied since `origin` was stored
  tickOption,   \* Life.Model._tick: "Model.tick", or the options.tick of the caller
  emitted       \* the signals emitted by the latest poll tick since `origin` was
                \* stored, each with the cells a listener read through data() in it

vars == <<input, snapshot, fluctuation, random, output, pc,
          shape, likelihood, data, page,
          state, rowCount, columnCount, ticker, twin, origin, before,
          generation, tickOption, emitted>>

tickVars == <<input, snapshot, fluctuation, random, output, pc>>
randomVars == <<shape, likelihood, data>>
modelVars == <<state, rowCount, columnCount, ticker, twin, origin, before,
               generation, tickOption, emitted>>

----------------------------------------------------------------------------
(* Bounds *)

\* Grids enumerated exhaustively as initial states hold at most this many cells.
MaxCells == 9
\* Grids enumerated exhaustively as arguments of a tick with random draws.
MaxTickCells == 6
\* Pattern grids (uniform, blinker, block) have at most this many rows/columns.
MaxTorus == 6
\* Poll ticks counted since the last assignment of the state.
MaxGeneration == 4
\* Grids a caller assigns to the state hold at most this many cells.
MaxAssignedCells == 3
\* Arrays passed to the constructor unvalidated: at most this many rows, each
\* of at most this many cells.
MaxRaggedSide == 2

----------------------------------------------------------------------------
(* Values *)

Bit == {0, 1}

length(a) == Cardinality(DOMAIN a)

Grids(rows, columns) == [0 .. rows - 1 -> [0 .. columns - 1 -> Bit]]

Shapes(maxCells) ==
  {s \in (1 .. maxCells) \X (1 .. maxCells) : s[1] * s[2] <= maxCells}

GridsUpTo(maxCells) ==
  UNION {Grids(s[1], s[2]) : s \in Shapes(maxCells)}

\* Every array of rows a caller can pass as a Bit[][]: the empty array, rows
\* of unequal lengths and rows of no cells included.
Arrays(maxSide) ==
  LET Rows == UNION {[0 .. n - 1 -> Bit] : n \in 0 .. maxSide}
  IN UNION {[0 .. r - 1 -> Rows] : r \in 0 .. maxSide}

\* What tick requires of its input: at least one row, the rows of one length,
\* at least one column.
Rectangular(grid) ==
  /\ length(grid) >= 1
  /\ length(grid[0]) >= 1
  /\ \A i \in DOMAIN grid : DOMAIN grid[i] = DOMAIN grid[0]

\* In halves: fluctuation 0, 1/2, 1; Math.random() returns 0 or 1/2, never 1.
Fluctuations == {0, 1, 2}
Draws == {0, 1}

\* The number of Math.random() calls one tick makes: none when fluctuation is
\* falsy (the && short-circuits), else one per cell.
drawsConsumed(in, fluct) ==
  IF fluct = 0 THEN 0 ELSE length(in) * length(in[0])

----------------------------------------------------------------------------
(* Life.Model.tick *)

\* Mutant: the edges clamp instead of wrapping.
neighborsClamped(in, i, j, lastRow, lastCol) ==
  LET decX == IF i >= 1 THEN i - 1 ELSE 0
      decY == IF j >= 1 THEN j - 1 ELSE 0
      incX == IF i + 1 <= lastRow THEN i + 1 ELSE lastRow
      incY == IF j + 1 <= lastCol THEN j + 1 ELSE lastCol
  IN in[decX][decY] + in[i][decY] + in[incX][decY] + in[decX][j] +
     in[incX][j] + in[decX][incY] + in[i][incY] + in[incX][incY]

\* Mutant: cells beyond an edge count as dead.
neighborsDeadEdge(in, i, j, lastRow, lastCol) ==
  LET at(x, y) == IF x >= 0 /\ x <= lastRow /\ y >= 0 /\ y <= lastCol
                  THEN in[x][y] ELSE 0
  IN at(i - 1, j - 1) + at(i, j - 1) + at(i + 1, j - 1) + at(i - 1, j) +
     at(i + 1, j) + at(i - 1, j + 1) + at(i, j + 1) + at(i + 1, j + 1)

\* Mutant: input[incX][j] mistyped as input[i][j].
neighborsTypo(in, i, j, lastRow, lastCol) ==
  LET decX == IF i >= 1 THEN i - 1 ELSE lastRow
      decY == IF j >= 1 THEN j - 1 ELSE lastCol
      incX == IF i + 1 <= lastRow THEN i + 1 ELSE 0
      incY == IF j + 1 <= lastCol THEN j + 1 ELSE 0
  IN in[decX][decY] + in[i][decY] + in[incX][decY] + in[decX][j] +
     in[i][j] + in[decX][incY] + in[i][incY] + in[incX][incY]

neighbors(in, i, j, lastRow, lastCol) ==
  LET decX == IF i >= 1 THEN i - 1 ELSE lastRow
      decY == IF j >= 1 THEN j - 1 ELSE lastCol
      incX == IF i + 1 <= lastRow THEN i + 1 ELSE 0
      incY == IF j + 1 <= lastCol THEN j + 1 ELSE 0
  IN in[decX][decY] +
     in[   i][decY] +
     in[incX][decY] +
     in[decX][   j] +
     in[incX][   j] +
     in[decX][incY] +
     in[   i][incY] +
     in[incX][incY]

\* Mutant: the second test without `alive &&`.
ruleBornOnTwo(alive, n) ==
  IF alive # 0 /\ n < 2 THEN 0
  ELSE IF n = 2 \/ n = 3 THEN 1
  ELSE IF alive # 0 /\ n > 3 THEN 0
  ELSE IF ~(alive # 0) /\ n = 3 THEN 1
  ELSE 0

\* Mutant: the second test without `|| neighbors === 3`.
ruleStrictSurvival(alive, n) ==
  IF alive # 0 /\ n < 2 THEN 0
  ELSE IF alive # 0 /\ n = 2 THEN 1
  ELSE IF alive # 0 /\ n > 3 THEN 0
  ELSE IF ~(alive # 0) /\ n = 3 THEN 1
  ELSE 0

\* Mutant: the last test with <= for ===.
ruleBornBelowFour(alive, n) ==
  IF alive # 0 /\ n < 2 THEN 0
  ELSE IF (alive # 0 /\ n = 2) \/ n = 3 THEN 1
  ELSE IF alive # 0 /\ n > 3 THEN 0
  ELSE IF ~(alive # 0) /\ n <= 3 THEN 1
  ELSE 0

\* The conditional chain; `alive && n === 2 || n === 3` is (alive && n === 2) || n === 3.
rule(alive, n) ==
  IF alive # 0 /\ n < 2 THEN 0
  ELSE IF (alive # 0 /\ n = 2) \/ n = 3 THEN 1
  ELSE IF alive # 0 /\ n > 3 THEN 0
  ELSE IF ~(alive # 0) /\ n = 3 THEN 1
  ELSE 0

\* Mutant: the comparison reversed.
fluctuateReversed(cell, fluct, rnd, k) ==
  IF fluct # 0 /\ rnd[k] > fluct THEN 1 - cell ELSE cell

\* Math.random() is called only when fluct is truthy; rnd[k] is the k-th result.
fluctuate(cell, fluct, rnd, k) ==
  IF fluct # 0 /\ rnd[k] < fluct THEN 1 - cell ELSE cell

\* output[i] = new Array<Bit>(columns)
allocateRow(mem, i) ==
  [mem EXCEPT !.output = @ @@ (i :> <<>>)]

\* Mutant: the cell is written to the input array as well.
storeInPlace(mem, i, j, cell) ==
  [mem EXCEPT !.input[i][j] = cell, !.output[i] = @ @@ (j :> cell)]

\* output[i][j] = cell
store(mem, i, j, cell) ==
  [mem EXCEPT !.output[i] = @ @@ (j :> cell)]

\* The two nested loops from cell number k on (row-major); mem holds the two
\* arrays the loops touch.
RECURSIVE tickLoop(_, _, _, _, _, _)
tickLoop(mem, rows, columns, k, fluct, rnd) ==
  IF k >= rows * columns THEN mem
  ELSE
    LET i == k \div columns
        j == k % columns
        m1 == IF j = 0 THEN allocateRow(mem, i) ELSE mem
        alive == m1.input[i][j]
        cell == fluctuate(rule(alive, neighbors(m1.input, i, j, rows - 1, columns - 1)), fluct, rnd, k)
    IN tickLoop(store(m1, i, j, cell), rows, columns, k + 1, fluct, rnd)

\* Mutant: the row loop stops at i < lastRow.
tickCallShort(in, fluct, rnd) ==
  tickLoop([input |-> in, output |-> <<>>], length(in) - 1, length(in[0]), 0, fluct, rnd)

\* The call tick(input, fluctuation): both arrays as the call leaves them.
tickCall(in, fluct, rnd) ==
  tickLoop([input |-> in, output |-> <<>>], length(in), length(in[0]), 0, fluct, rnd)

tick(in, fluct, rnd) == tickCall(in, fluct, rnd).output

----------------------------------------------------------------------------
(* Life.Model.random *)

\* Mutant: <= for <.
bitOfInclusive(draw, lik) == IF draw <= lik THEN 1 ELSE 0

\* Math.random() < likelihood ? 1 : 0
bitOf(draw, lik) == IF draw < lik THEN 1 ELSE 0

\* The inner loop from column j on: row[j] = ...; `calls` counts the
\* Math.random() calls made before this row.
RECURSIVE randomRow(_, _, _, _, _, _)
randomRow(row, j, columns, lik, rnd, calls) ==
  IF j >= columns THEN row
  ELSE randomRow(row @@ (j :> bitOf(rnd[calls + j], lik)),
                 j + 1, columns, lik, rnd, calls)

\* The outer loop from row i on: data.push(row).
RECURSIVE randomLoop(_, _, _, _, _, _)
randomLoop(grid, i, rows, columns, lik, rnd) ==
  IF i >= rows THEN grid
  ELSE randomLoop(grid @@ (i :> randomRow(<<>>, 0, columns, lik, rnd, i * columns)),
                  i + 1, rows, columns, lik, rnd)

randomData(rows, columns, lik, rnd) ==
  randomLoop(<<>>, 0, rows, columns, lik, rnd)

----------------------------------------------------------------------------
(* Scenarios not in play hold these values *)

IdleRandom ==
  /\ shape = <<0, 0>>
  /\ likelihood = 0
  /\ data = <<>>

\* No page has loaded life.js.
IdlePage == page = [loaded |-> FALSE]

----------------------------------------------------------------------------
(* A call of tick on every small grid, with every fluctuation and draws *)

IdleModel ==
  /\ state = <<>>
  /\ rowCount = 0
  /\ columnCount = 0
  /\ ticker = "none"
  /\ twin = <<>>
  /\ origin = <<>>
  /\ before = <<0, 0>>
  /\ generation = 0
  /\ tickOption = "none"
  /\ emitted = <<>>

InitTick ==
  /\ input \in GridsUpTo(MaxTickCells)
  /\ snapshot = input
  /\ fluctuation \in Fluctuations
  /\ random = <<>>
  /\ output = <<>>
  /\ pc = "ready"
  /\ IdleModel
  /\ IdleRandom
  /\ IdlePage


CallTick ==
  /\ pc = "ready"
  /\ \E rnd \in [0 .. drawsConsumed(input, fluctuation) - 1 -> Draws] :
       LET mem == tickCall(input, fluctuation, rnd)
       IN /\ input' = mem.input
          /\ output' = mem.output
          /\ random' = rnd
  /\ pc' = "returned"
  /\ UNCHANGED <<snapshot, fluctuation>>
  /\ UNCHANGED <<modelVars, randomVars, page>>


----------------------------------------------------------------------------
(* A call of random with every small shape, likelihood and draws *)

\* rows and columns may be 0: the loops then run no iteration.
RandomShapes ==
  {s \in (0 .. MaxTickCells) \X (0 .. MaxTickCells) : s[1] * s[2] <= MaxTickCells}

Likelihoods == {0, 1, 2}

InitRandom ==
  /\ shape \in RandomShapes
  /\ likelihood \in Likelihoods
  /\ data = <<>>
  /\ input = <<>>
  /\ snapshot = <<>>
  /\ fluctuation = 0
  /\ random = <<>>
  /\ output = <<>>
  /\ pc = "random"
  /\ IdleModel
  /\ IdlePage


CallRandom ==
  /\ pc = "random"
  /\ \E rnd \in [0 .. shape[1] * shape[2] - 1 -> Draws] :
       /\ data' = randomData(shape[1], shape[2], likelihood, rnd)
       /\ random' = rnd
  /\ pc' = "generated"
  /\ UNCHANGED <<input, snapshot, fluctuation, output, shape, likelihood>>
  /\ UNCHANGED <<modelVars, page>>

----------------------------------------------------------------------------
(* A call of the constructor with every small array, grid or not *)

InitConstruct ==
  /\ input \in Arrays(MaxRaggedSide)
  /\ snapshot = <<>>
  /\ fluctuation = 0
  /\ random = <<>>
  /\ output = <<>>
  /\ pc = "new"
  /\ IdleModel
  /\ IdleRandom
  /\ IdlePage


----------------------------------------------------------------------------
(* Pattern grids on a torus of rows x columns *)

\* The grid whose alive cells are exactly those of the set `cells`.
GridOf(rows, columns, cells) ==
  [i \in 0 .. rows - 1 |->
    [j \in 0 .. columns - 1 |-> IF <<i, j>> \in cells THEN 1 ELSE 0]]

Uniform(rows, columns, bit) ==
  [i \in 0 .. rows - 1 |-> [j \in 0 .. columns - 1 |-> bit]]

HorizontalCells(rows, columns, r, c) ==
  {<<r, (c + columns - 1) % columns>>, <<r, c>>, <<r, (c + 1) % columns>>}

VerticalCells(rows, columns, r, c) ==
  {<<(r + rows - 1) % rows, c>>, <<r, c>>, <<(r + 1) % rows, c>>}

BlockCells(rows, columns, r, c) ==
  {<<r, c>>, <<r, (c + 1) % columns>>,
   <<(r + 1) % rows, c>>, <<(r + 1) % rows, (c + 1) % columns>>}

UniformGrids ==
  {Uniform(r, c, b) : r \in 1 .. MaxTorus, c \in 1 .. MaxTorus, b \in Bit}

BlinkerGrids ==
  UNION {{GridOf(rows, columns, HorizontalCells(rows, columns, r, c)) :
            r \in 0 .. rows - 1, c \in 0 .. columns - 1} :
         rows \in 5 .. MaxTorus, columns \in 5 .. MaxTorus}

BlockGrids ==
  UNION {{GridOf(rows, columns, BlockCells(rows, columns, r, c)) :
            r \in 0 .. rows - 1, c \in 0 .. columns - 1} :
         rows \in 4 .. MaxTorus, columns \in 4 .. MaxTorus}

\* The grids a model is constructed from (options.initial, or Model.random()).
InitialGrids ==
  GridsUpTo(MaxCells) \cup UniformGrids \cup BlinkerGrids \cup BlockGrids

----------------------------------------------------------------------------
(* A Life.Model from its construction on, beside a second model constructed *)
(* from the same grid whose poll ticks whenever the first one's does         *)

IdleTick ==
  /\ input = <<>>
  /\ snapshot = <<>>
  /\ fluctuation = 0
  /\ random = <<>>
  /\ output = <<>>
  /\ pc = "none"

\* Mutant: the setter takes the row count for the column count and back.
assignSwapped(grid) ==
  /\ columnCount' = length(grid)
  /\ rowCount' = length(grid[0])
  /\ state' = grid

\* Mutant: the setter stores the array and leaves the counts.
assignStateOnly(grid) ==
  /\ state' = grid
  /\ UNCHANGED <<rowCount, columnCount>>

\* set state(state), given an array that is not the one the model holds
\* (a caller's new array, or the array tick has just allocated).
assign(grid) ==
  /\ columnCount' = length(grid[0])
  /\ rowCount' = length(grid)
  /\ state' = grid

\* The functions a model ticks with: Model.tick, or one given as options.tick,
\* of which two stand for all: one returning a new array of other dimensions,
\* one returning the array it was given.
TickOptions == {"Model.tick", "transpose", "same"}

transpose(grid) ==
  [j \in 0 .. length(grid[0]) - 1 |-> [i \in 0 .. length(grid) - 1 |-> grid[i][j]]]

\* this.tick(this.state)
applyTick(option, grid, rnd) ==
  CASE option = "Model.tick" -> tick(grid, 0, rnd)
    [] option = "transpose" -> transpose(grid)
    [] option = "same" -> grid

\* data(row, column) on a model holding `grid`.
cellData(grid, row, column) == grid[row][column]

\* The argument of emitChanged, with what a listener reads through data() for
\* every cell the event names while `grid` is the model's state.
changed(rowSpan, columnSpan, grid) ==
  [type |-> "cells-changed",
   region |-> "body",
   row |-> 0,
   column |-> 0,
   rowSpan |-> rowSpan,
   columnSpan |-> columnSpan,
   seen |-> [row \in 0 .. rowSpan - 1 |->
              [column \in 0 .. columnSpan - 1 |-> cellData(grid, row, column)]]]

\* new Life.Model({ initial, tick }): the poll is created with auto: false.
\* A tick of the caller's is followed on the small grids.
InitModel ==
  /\ \E initial \in InitialGrids :
       /\ columnCount = length(initial[0])
       /\ rowCount = length(initial)
       /\ state = initial
       /\ twin = initial
       /\ origin = initial
       /\ tickOption \in IF initial \in GridsUpTo(MaxAssignedCells)
                         THEN TickOptions
                         ELSE {"Model.tick"}
  /\ emitted = <<>>
  /\ before = <<0, 0>>
  /\ generation = 0
  /\ ticker = "constructed"
  /\ IdleTick
  /\ IdleRandom
  /\ IdlePage


\* new Life.Model({ initial }) with an array nothing has validated: the
\* setter reads state[0].length first, which throws a TypeError when the array
\* is empty, and otherwise stores the array as it is.
Construct ==
  /\ pc = "new"
  /\ IF length(input) = 0
     THEN /\ pc' = "TypeError"
          /\ UNCHANGED <<input, modelVars>>
     ELSE /\ assign(input)
          /\ twin' = input
          /\ origin' = input
          /\ generation' = 0
          /\ UNCHANGED before
          /\ ticker' = "constructed"
          /\ tickOption' = "Model.tick"
          /\ UNCHANGED emitted
          /\ pc' = "none"
          /\ input' = <<>>
  /\ UNCHANGED <<snapshot, fluctuation, random, output, randomVars, page>>

\* model.state = grid
SetState ==
  /\ ticker \in {"constructed", "started", "stopped", "disposed"}
  /\ \E grid \in GridsUpTo(MaxAssignedCells) :
       /\ assign(grid)
       /\ twin' = grid
       /\ origin' = grid
  /\ before' = <<rowCount, columnCount>>
  /\ generation' = 0
  /\ emitted' = <<>>
  /\ UNCHANGED <<ticker, tickOption>>
  /\ UNCHANGED <<tickVars, randomVars, page>>

\* model.state = model.state: the setter finds the array it holds and does nothing.
SetStateSame ==
  /\ ticker \in {"constructed", "started", "stopped", "disposed"}
  /\ UNCHANGED vars

Start ==
  /\ ticker \in {"constructed", "stopped"}
  /\ ticker' = "started"
  /\ UNCHANGED <<state, rowCount, columnCount, twin, origin, before, generation>>
  /\ UNCHANGED <<tickOption, emitted>>
  /\ UNCHANGED <<tickVars, randomVars, page>>

Stop ==
  /\ ticker = "started"
  /\ ticker' = "stopped"
  /\ UNCHANGED <<state, rowCount, columnCount, twin, origin, before, generation>>
  /\ UNCHANGED <<tickOption, emitted>>
  /\ UNCHANGED <<tickVars, randomVars, page>>

Dispose ==
  /\ ticker \in {"constructed", "started", "stopped"}
  /\ ticker' = "disposed"
  /\ UNCHANGED <<state, rowCount, columnCount, twin, origin, before, generation>>
  /\ UNCHANGED <<tickOption, emitted>>
  /\ UNCHANGED <<tickVars, randomVars, page>>

\* Mutant: the factory passes a fluctuation of 1/2; every draw of a tick alike.
PollTickFluctuating ==
  /\ ticker = "started"
  /\ generation < MaxGeneration
  /\ Rectangular(state)
  /\ \E d \in Draws :
       assign(tick(state, 1, [k \in 0 .. drawsConsumed(state, 1) - 1 |-> d]))
  /\ \E d \in Draws :
       twin' = tick(twin, 1, [k \in 0 .. drawsConsumed(twin, 1) - 1 |-> d])
  /\ generation' = generation + 1
  /\ emitted' = <<changed(rowCount', columnCount', state')>>
  /\ UNCHANGED <<ticker, origin, before, tickOption>>
  /\ UNCHANGED <<tickVars, randomVars, page>>

\* Mutant: the event is emitted before the state is replaced.
PollTickEmitFirst ==
  /\ ticker = "started"
  /\ generation < MaxGeneration
  /\ Rectangular(state)
  /\ emitted' = <<changed(rowCount, columnCount, state)>>
  /\ \E rnd \in [0 .. drawsConsumed(state, 0) - 1 -> Draws] :
       LET next == applyTick(tickOption, state, rnd)
       IN IF tickOption = "same"
          THEN UNCHANGED <<state, rowCount, columnCount>>
          ELSE assign(next)
  /\ \E rnd \in [0 .. drawsConsumed(twin, 0) - 1 -> Draws] :
       twin' = applyTick(tickOption, twin, rnd)
  /\ generation' = generation + 1
  /\ UNCHANGED <<ticker, origin, before, tickOption>>
  /\ UNCHANGED <<tickVars, randomVars, page>>

\* Mutant: the poll ticks whether started or stopped.
PollTickStopped ==
  /\ ticker \in {"started", "stopped"}
  /\ generation < MaxGeneration
  /\ Rectangular(state)
  /\ \E rnd \in [0 .. drawsConsumed(state, 0) - 1 -> Draws] :
       LET next == applyTick(tickOption, state, rnd)
       IN IF tickOption = "same"
          THEN UNCHANGED <<state, rowCount, columnCount>>
          ELSE assign(next)
  /\ \E rnd \in [0 .. drawsConsumed(twin, 0) - 1 -> Draws] :
       twin' = applyTick(tickOption, twin, rnd)
  /\ generation' = generation + 1
  /\ emitted' = <<changed(rowCount', columnCount', state')>>
  /\ UNCHANGED <<ticker, origin, before, tickOption>>
  /\ UNCHANGED <<tickVars, randomVars, page>>

\* The poll's factory, run while the poll is started:
\* this.state = this.tick(this.state), fluctuation defaulted to 0 (the setter
\* does nothing when handed the array it holds), then emitChanged with the
\* counts as they now are; a listener runs inside emitChanged.
\* Followed for the grids tick is written for; on rows of unequal lengths tick
\* reads cells that do not exist.
PollTick ==
  /\ ticker = "started"
  /\ generation < MaxGeneration
  /\ Rectangular(state)
  /\ \E rnd \in [0 .. drawsConsumed(state, 0) - 1 -> Draws] :
       LET next == applyTick(tickOption, state, rnd)
       IN IF tickOption = "same"
          THEN UNCHANGED <<state, rowCount, columnCount>>
          ELSE assign(next)
  /\ \E rnd \in [0 .. drawsConsumed(twin, 0) - 1 -> Draws] :
       twin' = applyTick(tickOption, twin, rnd)
  /\ generation' = generation + 1
  /\ emitted' = <<changed(rowCount', columnCount', state')>>
  /\ UNCHANGED <<ticker, origin, before, tickOption>>
  /\ UNCHANGED <<tickVars, randomVars, page>>

----------------------------------------------------------------------------
(* life.js: update, and the page that calls it on an interval *)

QUANTUM_FLUCTUATION == 0

updateNeighbors(prevBuf, x, y, lastRow, lastCol) ==
  LET decX == IF x >= 1 THEN x - 1 ELSE lastRow
      decY == IF y >= 1 THEN y - 1 ELSE lastCol
      incX == IF x + 1 <= lastRow THEN x + 1 ELSE 0
      incY == IF y + 1 <= lastCol THEN y + 1 ELSE 0
  IN prevBuf[decX][decY] +
     prevBuf[   x][decY] +
     prevBuf[incX][decY] +
     prevBuf[decX][   y] +
     prevBuf[incX][   y] +
     prevBuf[decX][incY] +
     prevBuf[   x][incY] +
     prevBuf[incX][incY]

\* The chain of life.js, with its parentheses.
updateRule(alive, n) ==
  IF alive # 0 /\ n < 2 THEN 0
  ELSE IF alive # 0 /\ (n = 2 \/ n = 3) THEN 1
  ELSE IF alive # 0 /\ n > 3 THEN 0
  ELSE IF ~(alive # 0) /\ n = 3 THEN 1
  ELSE 0

\* if (QUANTUM_FLUCTUATION && Math.random() < QUANTUM_FLUCTUATION) cell = 1 - cell
updateFluctuate(cell, rnd, k) ==
  IF QUANTUM_FLUCTUATION # 0 /\ rnd[k] < QUANTUM_FLUCTUATION THEN 1 - cell ELSE cell

\* cells[i] ? 'alive' : ''
className(cell) == IF cell # 0 THEN "alive" ELSE ""

\* Mutant: the class is rewritten when the cell differs from next[x][y].
paintAgainstNext(pg, p, n, x, y, cell) ==
  IF pg.buffers[n][x][y] # cell
  THEN [pg EXCEPT !.rows[x][y] = className(cell)]
  ELSE pg

\* if (prev[x][y] !== cell) rows[x][y].className = cell ? 'alive' : ''
paint(pg, p, n, x, y, cell) ==
  IF pg.buffers[p][x][y] # cell
  THEN [pg EXCEPT !.rows[x][y] = className(cell)]
  ELSE pg

\* next[x][y] = cell
record(pg, n, x, y, cell) ==
  [pg EXCEPT !.buffers[n][x][y] = cell]

\* The loops of update(rows, prev, next) from cell number k on (row-major);
\* p and n name the arrays passed as prev and next.
RECURSIVE updateLoop(_, _, _, _)
updateLoop(pg, p, n, k) ==
  IF k >= pg.ROWS * pg.COLUMNS THEN pg
  ELSE
    LET x == k \div pg.COLUMNS
        y == k % pg.COLUMNS
        alive == pg.buffers[p][x][y]
        counted == updateNeighbors(pg.buffers[p], x, y, pg.ROWS - 1, pg.COLUMNS - 1)
        cell == updateFluctuate(updateRule(alive, counted), <<>>, k)
    IN updateLoop(record(paint(pg, p, n, x, y, cell), n, x, y, cell), p, n, k + 1)

update(pg, p, n) == updateLoop(pg, p, n, 0)

\* createTable(prev): one class name per cell.
createTable(grid) ==
  [x \in DOMAIN grid |-> [y \in DOMAIN grid[x] |-> className(grid[x][y])]]

\* The load listener, prev = random(ROWS, COLUMNS) being `grid`: next is a deep
\* copy (array b), the table shows prev; then the history of the callbacks:
\* the grid started from, the arrays the last callback read and wrote, and
\* the number of callbacks so far.
load(grid) ==
  [loaded |-> TRUE,
   ROWS |-> length(grid),
   COLUMNS |-> length(grid[0]),
   buffers |-> [a |-> grid, b |-> grid],
   prev |-> "a",
   next |-> "b",
   swap |-> FALSE,
   rows |-> createTable(grid),
   first |-> grid,
   read |-> "none",
   written |-> "none",
   callbacks |-> 0]

InitPage ==
  /\ \E grid \in InitialGrids : page = load(grid)
  /\ shape = <<0, 0>>
  /\ likelihood = 0
  /\ data = <<>>
  /\ IdleTick
  /\ IdleModel

\* Mutant: swap is never toggled.
IntervalNoSwap ==
  /\ page.loaded
  /\ page.callbacks < MaxGeneration
  /\ LET p == IF page.swap THEN page.next ELSE page.prev
         n == IF page.swap THEN page.prev ELSE page.next
         updated == update(page, p, n)
     IN page' = [updated EXCEPT !.read = p,
                                !.written = n,
                                !.callbacks = page.callbacks + 1]
  /\ UNCHANGED <<tickVars, randomVars, modelVars>>

\* The setInterval callback: update from one array into the other, then
\* swap = !swap.
Interval ==
  /\ page.loaded
  /\ page.callbacks < MaxGeneration
  /\ LET p == IF page.swap THEN page.next ELSE page.prev
         n == IF page.swap THEN page.prev ELSE page.next
         updated == update(page, p, n)
     IN page' = [updated EXCEPT !.swap = ~page.swap,
                                !.read = p,
                                !.written = n,
                                !.callbacks = page.callbacks + 1]
  /\ UNCHANGED <<tickVars, randomVars, modelVars>>

Init == InitPage \/ InitTick \/ InitRandom \/ InitConstruct \/ InitModel

Next ==
  \/ CallTick
  \/ CallRandom
  \/ Construct
  \/ Interval
  \/ SetState
  \/ SetStateSame
  \/ Start
  \/ Stop
  \/ Dispose
  \/ PollTick

Spec == Init /\ [][Next]_vars

----------------------------------------------------------------------------
(* Reference definitions the properties are stated with *)

\* Conway's rule table B3/S23.
B3S23(alive, n) ==
  IF (alive = 1 /\ n \in {2, 3}) \/ (alive = 0 /\ n = 3) THEN 1 ELSE 0

Offsets == ({-1, 0, 1} \X {-1, 0, 1}) \ {<<0, 0>>}

RECURSIVE SumOver(_, _)
SumOver(f, set) ==
  IF set = {} THEN 0
  ELSE LET x == CHOOSE y \in set : TRUE IN f[x] + SumOver(f, set \ {x})

\* The sum of the eight cells around (r, c) on the torus.
ModSum(grid, r, c) ==
  LET rows == length(grid)
      columns == length(grid[0])
  IN SumOver([d \in Offsets |->
                grid[(r + d[1] + rows) % rows][(c + d[2] + columns) % columns]],
             Offsets)

IsGrid(grid, rows, columns) ==
  /\ DOMAIN grid = 0 .. rows - 1
  /\ \A i \in DOMAIN grid :
       /\ DOMAIN grid[i] = 0 .. columns - 1
       /\ \A j \in DOMAIN grid[i] : grid[i][j] \in Bit

Returned == pc = "returned"
\* A model exists that ticks with Model.tick, and the array it was last given
\* is a grid tick is written for.
Constructed ==
  /\ ticker \in {"constructed", "started", "stopped", "disposed"}
  /\ tickOption = "Model.tick"
  /\ Rectangular(origin)

----------------------------------------------------------------------------
(* Properties *)

\* C1: with fluctuation 0 the conditional chain of tick writes 1 exactly when
\* (alive = 1 and n in {2,3}) or (alive = 0 and n = 3), for every alive in
\* {0,1} and n in 0..8, and so does every cell a tick with fluctuation 0
\* returns.
C1_RuleIsB3S23 ==
  /\ \A alive \in Bit, n \in 0 .. 8 : rule(alive, n) = B3S23(alive, n)
  /\ (Returned /\ fluctuation = 0) =>
       \A i \in DOMAIN snapshot : \A j \in DOMAIN snapshot[i] :
         output[i][j] =
           B3S23(snapshot[i][j],
                 neighbors(snapshot, i, j, length(snapshot) - 1,
                           length(snapshot[0]) - 1))

\* A dead cell with three neighbors, the case the unparenthesised test catches.
C1_Witness ==
  /\ Returned
  /\ fluctuation = 0
  /\ \E i \in DOMAIN snapshot : \E j \in DOMAIN snapshot[i] :
       /\ snapshot[i][j] = 0
       /\ neighbors(snapshot, i, j, length(snapshot) - 1,
                    length(snapshot[0]) - 1) = 3
       /\ output[i][j] = 1

\* C2: for every grid with at least one row and one column and every cell,
\* the neighbor count tick computes is the sum of the eight cells at the
\* offsets other than (0,0), coordinates taken modulo the row and column
\* counts; it lies in 0..8; and a tick with fluctuation 0 returns the rule
\* applied to that sum.
C2_NeighborsAreModular ==
  /\ Constructed =>
       \A i \in DOMAIN state : \A j \in DOMAIN state[i] :
         /\ neighbors(state, i, j, length(state) - 1, length(state[0]) - 1)
              = ModSum(state, i, j)
         /\ ModSum(state, i, j) \in 0 .. 8
  /\ Returned =>
       \A i \in DOMAIN snapshot : \A j \in DOMAIN snapshot[i] :
         /\ neighbors(snapshot, i, j, length(snapshot) - 1,
                      length(snapshot[0]) - 1) = ModSum(snapshot, i, j)
         /\ fluctuation = 0 =>
              output[i][j] = rule(snapshot[i][j], ModSum(snapshot, i, j))

\* Two rows, so that r-1 and r+1 are the same row: a cell born of three neighbors.
C2_Witness ==
  /\ Constructed
  /\ generation = 1
  /\ length(origin) = 2
  /\ \E i \in DOMAIN origin : \E j \in DOMAIN origin[i] :
       /\ origin[i][j] = 0
       /\ ModSum(origin, i, j) = 3
       /\ state[i][j] = 1

\* C3: tick leaves its input unchanged for any fluctuation, and every cell of
\* its output is the rule (then the flip) applied to the values the input
\* held before the call.
C3_InputUnchanged ==
  Returned =>
    /\ input = snapshot
    /\ \A i \in DOMAIN snapshot : \A j \in DOMAIN snapshot[i] :
         LET k == i * length(snapshot[0]) + j
             cell == B3S23(snapshot[i][j], ModSum(snapshot, i, j))
         IN output[i][j] =
              IF fluctuation # 0 /\ random[k] < fluctuation
              THEN 1 - cell ELSE cell

C3_Witness ==
  /\ Returned
  /\ fluctuation = 1
  /\ input = snapshot
  /\ output # snapshot
  /\ length(snapshot) >= 2

\* C4: the grid tick returns has the row and column counts of its input, for
\* any fluctuation; and after any number of poll ticks the grid of a model
\* has the dimensions of the grid it started from.
C4_DimensionsPreserved ==
  /\ Returned => IsGrid(output, length(snapshot), length(snapshot[0]))
  /\ Constructed =>
       /\ IsGrid(state, length(origin), length(origin[0]))
       /\ rowCount = length(origin)
       /\ columnCount = length(origin[0])

C4_Witness ==
  /\ ticker = "started"
  /\ generation >= 2
  /\ rowCount = 2
  /\ columnCount = 3
  /\ state # origin

\* C5: two models constructed from identical grids hold identical grids
\* after the same number of ticks; and what tick returns with fluctuation 0
\* is the same whatever Math.random() would have returned.
C5_Deterministic ==
  /\ Constructed => twin = state
  /\ (Returned /\ fluctuation = 0) =>
       /\ random = <<>>
       /\ \A rnd \in [0 .. length(snapshot) * length(snapshot[0]) - 1 -> Draws] :
            tick(snapshot, 0, rnd) = output

C5_Witness ==
  /\ Constructed
  /\ generation >= 3
  /\ twin = state
  /\ state # origin
  /\ \E i \in DOMAIN state : \E j \in DOMAIN state[i] : state[i][j] = 1

\* The cells of `grid` that are the centre of a horizontal run of three.
HorizontalCentres(grid) ==
  LET rows == length(grid)
      columns == length(grid[0])
  IN {p \in (0 .. rows - 1) \X (0 .. columns - 1) :
        grid = GridOf(rows, columns, HorizontalCells(rows, columns, p[1], p[2]))}

\* The top-left cells of a 2x2 block that is all of `grid`.
BlockCorners(grid) ==
  LET rows == length(grid)
      columns == length(grid[0])
  IN {p \in (0 .. rows - 1) \X (0 .. columns - 1) :
        grid = GridOf(rows, columns, BlockCells(rows, columns, p[1], p[2]))}

AtLeast(grid, n) == length(grid) >= n /\ length(grid[0]) >= n

\* C6: a horizontal blinker anywhere on a torus of at least 5 x 5 is, after
\* one tick, the vertical blinker through the same centre (so not the grid
\* it was), and after two ticks the original grid again.
C6_BlinkerPeriodTwo ==
  (Constructed /\ AtLeast(origin, 5)) =>
    \A p \in HorizontalCentres(origin) :
      LET rows == length(origin)
          columns == length(origin[0])
          vertical == GridOf(rows, columns, VerticalCells(rows, columns, p[1], p[2]))
      IN /\ generation % 2 = 1 => (state = vertical /\ state # origin)
         /\ generation % 2 = 0 => state = origin

\* A blinker across the wrapped edge, back after two ticks.
C6_Witness ==
  /\ Constructed
  /\ AtLeast(origin, 5)
  /\ \E p \in HorizontalCentres(origin) : p[2] = 0
  /\ generation = 2
  /\ state = origin

\* C7: a grid whose only alive cells are one 2x2 block, anywhere on a torus
\* of at least 4 x 4, is unchanged after any number of ticks.
C7_BlockIsStill ==
  (Constructed /\ AtLeast(origin, 4) /\ BlockCorners(origin) # {}) =>
    state = origin

\* A block straddling both wrapped edges, after several ticks.
C7_Witness ==
  /\ Constructed
  /\ AtLeast(origin, 4)
  /\ <<length(origin) - 1, length(origin[0]) - 1>> \in BlockCorners(origin)
  /\ generation >= 3
  /\ state = origin

\* C8: if every cell is dead, every cell is dead after any number of ticks,
\* whatever the dimensions.
C8_AllDeadAbsorbing ==
  (Constructed /\ origin = Uniform(length(origin), length(origin[0]), 0)) =>
    state = origin

C8_Witness ==
  /\ Constructed
  /\ origin = Uniform(1, MaxTorus, 0)
  /\ generation >= 2
  /\ state = origin

\* C9: a grid of at least 3 x 3 with every cell alive is all dead after one
\* tick.
C9_AllAliveDies ==
  (/\ Constructed
   /\ AtLeast(origin, 3)
   /\ origin = Uniform(length(origin), length(origin[0]), 1)
   /\ generation = 1) =>
    state = Uniform(length(origin), length(origin[0]), 0)

C9_Witness ==
  /\ Constructed
  /\ origin = Uniform(3, MaxTorus, 1)
  /\ generation = 1
  /\ state = Uniform(3, MaxTorus, 0)

\* C10: with fluctuation 1, whatever the draws, every cell tick returns is
\* the complement of the cell it returns for the same input with fluctuation
\* 0, and is 0 or 1.
C10_FluctuationOneFlips ==
  (Returned /\ fluctuation = 2) =>
    LET plain == tick(snapshot, 0, <<>>)
    IN \A i \in DOMAIN snapshot : \A j \in DOMAIN snapshot[i] :
         /\ output[i][j] = 1 - plain[i][j]
         /\ output[i][j] \in Bit

\* Draws of both kinds, cells flipped both ways.
C10_Witness ==
  /\ Returned
  /\ fluctuation = 2
  /\ \E k \in DOMAIN random : random[k] = 0
  /\ \E k \in DOMAIN random : random[k] = 1
  /\ \E i \in DOMAIN output : \E j \in DOMAIN output[i] : output[i][j] = 0
  /\ \E i \in DOMAIN output : \E j \in DOMAIN output[i] : output[i][j] = 1

Generated == pc = "generated"

\* C11: random(rows, columns, likelihood) returns rows rows of columns cells,
\* each alive exactly when its own draw is strictly below likelihood; so
\* likelihood 0 gives an all-dead grid and likelihood 1 an all-alive grid,
\* whatever the draws.
C11_RandomByLikelihood ==
  Generated =>
    /\ IsGrid(data, shape[1], shape[2])
    /\ \A i \in DOMAIN data : \A j \in DOMAIN data[i] :
         data[i][j] = 1 <=> random[i * shape[2] + j] < likelihood
    /\ likelihood = 0 => data = Uniform(shape[1], shape[2], 0)
    /\ likelihood = 2 => data = Uniform(shape[1], shape[2], 1)

\* Likelihood 0 with a draw of 0: not strictly below, so dead.
C11_Witness ==
  /\ Generated
  /\ likelihood = 0
  /\ shape = <<2, 3>>
  /\ \E k \in DOMAIN random : random[k] = 0
  /\ \E k \in DOMAIN random : random[k] = 1
  /\ data = Uniform(2, 3, 0)

\* C12: constructing a model from rows of unequal lengths, or from an empty
\* grid, fails with an InvalidGrid error and creates no model state.
C12_InvalidGridRejected ==
  ticker # "none" =>
    /\ length(origin) >= 1
    /\ \A i \in DOMAIN origin : length(origin[i]) = length(origin[0])

\* A step that is an assignment to the state by a caller; origin' is the grid
\* assigned.
AssignmentStep ==
  /\ ticker # "none"
  /\ ticker' = ticker
  /\ generation' = 0

----------------------------------------------------------------------------
(* life.js against Life.Model.tick *)

\* Life.Model.tick without fluctuation applied n times to grid.
RECURSIVE Iterated(_, _)
Iterated(grid, n) ==
  IF n = 0 THEN grid ELSE tick(Iterated(grid, n - 1), 0, <<>>)

\* The array holding the newest generation: the one the last callback wrote,
\* or prev before any callback.
Newest == IF page.written = "none" THEN page.prev ELSE page.written

\* C14: in life.js the array written by the latest callback equals tick
\* (without fluctuation) applied to the initial grid once per callback so
\* far; prev and next are never the same array, and every callback reads the
\* array the callback before it wrote (the initial grid's for the first) and
\* writes the other one.
C14_BuffersIterateTick ==
  /\ [](page.loaded =>
          /\ page.prev # page.next
          /\ page.buffers[Newest] = Iterated(page.first, page.callbacks))
  /\ [][page.loaded /\ page'.callbacks = page.callbacks + 1 =>
          /\ page'.read = Newest
          /\ page'.written # page'.read
          /\ page'.written \in {page.prev, page.next}]_vars

\* Three callbacks on a blinker, which is vertical again and now in array b.
C14_Witness ==
  /\ page.loaded
  /\ page.callbacks = 3
  /\ page.written = "b"
  /\ page.first = GridOf(5, 5, HorizontalCells(5, 5, 2, 2))
  /\ page.buffers["b"] = GridOf(5, 5, VerticalCells(5, 5, 2, 2))
  /\ page.buffers["a"] = page.first

\* C17: in life.js the class of every DOM cell is 'alive' exactly when the
\* array written by the latest callback (the initial grid before any) holds
\* 1 in that cell.
C17_TableShowsNewest ==
  page.loaded =>
    \A x \in 0 .. page.ROWS - 1 : \A y \in 0 .. page.COLUMNS - 1 :
      page.rows[x][y] = "alive" <=> page.buffers[Newest][x][y] = 1

\* Two callbacks on a blinker: the table shows it horizontal again.
C17_Witness ==
  /\ page.loaded
  /\ page.callbacks = 2
  /\ page.written = "a"
  /\ page.rows = createTable(GridOf(5, 5, HorizontalCells(5, 5, 2, 2)))
  /\ page.rows[2][1] = "alive"
  /\ page.rows[1][2] = ""

----------------------------------------------------------------------------
(* A Life.Model's counts, signals and ticker *)

\* A step that is a poll tick of the model.
PollStep == ticker # "none" /\ generation' = generation + 1

C16_ChangedAfterReplaced ==
  [][PollStep =>
       /\ Len(emitted') = 1
       /\ emitted'[1].type = "cells-changed"
       /\ emitted'[1].region = "body"
       /\ emitted'[1].row = 0
       /\ emitted'[1].column = 0
       /\ emitted'[1].rowSpan = length(state')
       /\ emitted'[1].columnSpan = length(state'[0])
       /\ <<emitted'[1].rowSpan, emitted'[1].columnSpan>> = <<rowCount', columnCount'>>
       /\ emitted'[1].seen = state'
       /\ state' = applyTick(tickOption, state, <<>>)]_vars

\* The listener has read a generation that differs from the one before it.
C16_Witness ==
  /\ Constructed
  /\ generation = 1
  /\ Len(emitted) = 1
  /\ emitted[1].seen = state
  /\ state # origin

====
